---- MODULE Spec2Model ----
(***************************************************************************)
(* Model of src/OpenGL/maincpp.cpp: the shader pipeline of main, i.e.      *)
(* ParseShader (lines 22-54), CompileShader (56-78), CreateShader (80-95)  *)
(* and the part of main that uses them (163-188).                          *)
(*                                                                         *)
(* Text is a sequence of tokens.  A token stands for a run of characters;  *)
(* NL is the newline character.  std::string::find(word) is the presence   *)
(* of the token of that word.  The OpenGL driver is the environment: the   *)
(* outcome of a compile or a link, the info log and the object names it    *)
(* hands out are chosen by it.  A rendering context exists (main returns   *)
(* before line 163 otherwise), so object creation yields non-zero names,   *)
(* and a failed compile leaves a non-empty info log.                       *)
(***************************************************************************)
EXTENDS Integers, Sequences, FiniteSets, TLC

VARIABLES
    pc,            \* position of main / of the function it is in
    fileReadable,  \* "default.shader" exists and can be opened
    srcLines,      \* the lines of "default.shader" as written on disk
    finalNL,       \* the last line of the file ends with a newline
    stream,        \* std::ifstream stream: characters not yet read
    read,          \* the lines getline has returned so far, in order
    streamGood,    \* std::ifstream stream: no failbit
    type,          \* ParseShader: ShaderType type
    ss,            \* ParseShader: std::stringstream ss[2]
    oob,           \* ParseShader touched memory outside ss[0..1]
    source,        \* main: ShaderProgramSource source
    program,       \* CreateShader: unsigned int program
    vs,            \* CreateShader: unsigned int vs
    fs,            \* CreateShader: unsigned int fs
    shader,        \* main: unsigned int shader
    shaders,       \* driver: the shader objects ever created, in order
    attached,      \* driver: indices (into shaders) attached to the program
    linkStatus,    \* driver: GL_LINK_STATUS of the program
    progState,     \* driver: life cycle of the program object
    glCalls,       \* driver: the calls received, in order
    out,           \* std::cout: the lines written, in order
    frames         \* iterations of the game loop so far

vars == <<pc, fileReadable, srcLines, finalNL, stream, read, streamGood, type, ss,
          oob, source, program, vs, fs, shader, shaders, attached,
          linkStatus, progState, glCalls, out, frames>>

parseVars == <<stream, read, streamGood, type, ss, oob>>
fileVars  == <<fileReadable, srcLines, finalNL>>
glVars    == <<shaders, attached, linkStatus, progState, glCalls>>
localVars == <<program, vs, fs, shader>>

----------------------------------------------------------------------------
\* Bounds of the model

MaxLines  == 4     \* lines in the shader file
MaxFrames == 1     \* iterations of the game loop

----------------------------------------------------------------------------
\* Text

NL == "\n"

\* ShaderType (line 28)
NONE     == -1
VERTEX   == 0
FRAGMENT == 1

\* the shader types CreateShader passes to CompileShader (lines 83-84)
GL_VERTEX_SHADER   == "GL_VERTEX_SHADER"
GL_FRAGMENT_SHADER == "GL_FRAGMENT_SHADER"

\* The lines a shader file is made of: the two directives, a directive with
\* both sub-tokens, a directive with none, a line of code that has the word
\* "vertex" in it, and an empty line.
LineSet ==
    { <<"#shader", "vertex">>,
      <<"#shader", "fragment">>,
      <<"#shader", "fragment", "vertex">>,
      <<"#shader">>,
      <<"vertex", ";">>,
      <<>> }

\* The info logs a driver leaves after a failed compile.
Logs == { <<"error", "C0000">> }

RECURSIVE SeqsUpTo(_, _)
SeqsUpTo(S, n) ==
    IF n = 0 THEN { <<>> }
    ELSE LET shorter == SeqsUpTo(S, n - 1)
         IN  shorter \cup { Append(s, x) : s \in { t \in shorter : Len(t) = n - 1 }, x \in S }

\* The characters of a file whose lines are ls; every line but possibly the
\* last ends with a newline.
RECURSIVE FileText(_, _)
FileText(ls, fnl) ==
    IF ls = <<>> THEN <<>>
    ELSE IF Len(ls) = 1 THEN (IF fnl THEN Head(ls) \o <<NL>> ELSE Head(ls))
    ELSE Head(ls) \o <<NL>> \o FileText(Tail(ls), fnl)

\* std::string::find(word) != npos
Find(line, word) == \E i \in 1..Len(line) : line[i] = word

\* std::getline(stream, line): the characters up to the first newline (or
\* to the end of the file), the newline itself being dropped.
HasNL(s) == \E i \in 1..Len(s) : s[i] = NL
FirstNL(s) == CHOOSE i \in 1..Len(s) : s[i] = NL /\ \A j \in 1..(i - 1) : s[j] # NL
GetlineLine(s) == IF HasNL(s) THEN SubSeq(s, 1, FirstNL(s) - 1) ELSE s
GetlineRest(s) == IF HasNL(s) THEN SubSeq(s, FirstNL(s) + 1, Len(s)) ELSE <<>>
\* getline succeeds iff the stream is good and at least one character is left
GetlineOK == streamGood /\ stream # <<>>

----------------------------------------------------------------------------
\* ParseShader

\* NextType with a directive that names no stage resetting the mode
NextTypeReset(t, line) ==
    IF Find(line, "vertex") THEN VERTEX
    ELSE IF Find(line, "fragment") THEN FRAGMENT
    ELSE NONE

\* lines 39-46: the mode after a directive line
NextType(t, line) ==
    IF Find(line, "vertex") THEN VERTEX
    ELSE IF Find(line, "fragment") THEN FRAGMENT
    ELSE t

\* AppendLine without the newline after the line
AppendLineNoNewline(buf, t, line) == [buf EXCEPT ![t] = @ \o line]

\* line 50, type in 0..1: ss[(int)type] << line << "\n"
AppendLine(buf, t, line) == [buf EXCEPT ![t] = @ \o line \o <<NL>>]

Init ==
    /\ pc = "open"
    /\ fileReadable \in BOOLEAN
    /\ srcLines \in SeqsUpTo(LineSet, MaxLines)
    /\ finalNL \in BOOLEAN
    /\ (~finalNL) => (srcLines # <<>> /\ srcLines[Len(srcLines)] # <<>>)
    /\ (~fileReadable) => (srcLines = <<>> /\ finalNL)
    /\ stream = <<>>
    /\ read = <<>>
    /\ streamGood = FALSE
    /\ type = NONE
    /\ ss = [i \in 0..1 |-> <<>>]
    /\ oob = FALSE
    /\ source = [VertexSource |-> <<>>, FragmentSource |-> <<>>]
    /\ program = 0 /\ vs = 0 /\ fs = 0 /\ shader = 0
    /\ shaders = <<>>
    /\ attached = {}
    /\ linkStatus = "unlinked"
    /\ progState = "none"
    /\ glCalls = <<>>
    /\ out = <<>>
    /\ frames = 0

\* line 24: std::ifstream stream(filepath)
OpenStream ==
    /\ pc = "open"
    /\ streamGood' = fileReadable
    /\ stream' = IF fileReadable THEN FileText(srcLines, finalNL) ELSE <<>>
    /\ pc' = "getline"
    /\ UNCHANGED <<read, type, ss, oob, source, out, frames>>
    /\ UNCHANGED <<fileVars, glVars, localVars>>

\* DirectiveLine without the else of line 48: the directive line is written
\* to the buffer it selects
DirectiveLineKept ==
    /\ pc = "getline"
    /\ GetlineOK
    /\ LET line == GetlineLine(stream) IN
        /\ Find(line, "#shader")
        /\ type' = NextType(type, line)
        /\ ss' = IF NextType(type, line) = NONE THEN ss
                 ELSE AppendLine(ss, NextType(type, line), line)
    /\ stream' = GetlineRest(stream)
    /\ read' = Append(read, GetlineLine(stream))
    /\ UNCHANGED <<pc, streamGood, oob, source, out, frames>>
    /\ UNCHANGED <<fileVars, glVars, localVars>>

\* lines 35-47: getline yields a line that contains "#shader"
DirectiveLine ==
    /\ pc = "getline"
    /\ GetlineOK
    /\ LET line == GetlineLine(stream) IN
        /\ Find(line, "#shader")
        /\ type' = NextType(type, line)
    /\ stream' = GetlineRest(stream)
    /\ read' = Append(read, GetlineLine(stream))
    /\ UNCHANGED <<pc, streamGood, ss, oob, source, out, frames>>
    /\ UNCHANGED <<fileVars, glVars, localVars>>

\* lines 35-37, 48-51 with type VERTEX or FRAGMENT
ContentLine ==
    /\ pc = "getline"
    /\ GetlineOK
    /\ type # NONE
    /\ LET line == GetlineLine(stream) IN
        /\ ~Find(line, "#shader")
        /\ ss' = AppendLine(ss, type, line)
    /\ stream' = GetlineRest(stream)
    /\ read' = Append(read, GetlineLine(stream))
    /\ UNCHANGED <<pc, streamGood, type, oob, source, out, frames>>
    /\ UNCHANGED <<fileVars, glVars, localVars>>

\* lines 35-37, 48-51 with type NONE: ss[-1] << line is a write through an
\* object that lies before the array.  The process either dies in it or
\* goes on with the two buffers as they were.
ContentLineNoMode ==
    /\ pc = "getline"
    /\ GetlineOK
    /\ type = NONE
    /\ ~Find(GetlineLine(stream), "#shader")
    /\ oob' = TRUE
    /\ stream' = GetlineRest(stream)
    /\ read' = Append(read, GetlineLine(stream))
    /\ \/ pc' = "crashed"
       \/ pc' = pc
    /\ UNCHANGED <<streamGood, type, ss, source, out, frames>>
    /\ UNCHANGED <<fileVars, glVars, localVars>>

\* lines 35, 53 and 163: getline fails, the two strings are returned to
\* main; the locals of ParseShader end with the call
ParseReturn ==
    /\ pc = "getline"
    /\ ~GetlineOK
    /\ source' = [VertexSource |-> ss[0], FragmentSource |-> ss[1]]
    /\ pc' = "parsed"
    /\ UNCHANGED <<parseVars, out, frames>>
    /\ UNCHANGED <<fileVars, glVars, localVars>>

----------------------------------------------------------------------------
\* The OpenGL driver

\* An entry of glCalls
Call(name, kind, id) == [call |-> name, kind |-> kind, id |-> id]

\* the shader object of that name that exists (0 if there is none); an
\* object flagged for deletion exists until it is detached
Lookup(shs, name) ==
    IF \E i \in 1..Len(shs) : shs[i].name = name /\ shs[i].state # "freed"
    THEN CHOOSE i \in 1..Len(shs) : shs[i].name = name /\ shs[i].state # "freed"
    ELSE 0

\* the names in use: shader and program objects share one name space
UsedNames(shs, prog, pst) ==
    { shs[i].name : i \in { j \in 1..Len(shs) : shs[j].state # "freed" } }
        \cup (IF pst = "created" THEN {prog} ELSE {})
EverUsed(shs, prog) == { shs[i].name : i \in 1..Len(shs) } \cup {prog}
SetMax(S) == CHOOSE m \in S : \A x \in S : x <= m
\* the names glCreateShader / glCreateProgram may return: the lowest free
\* one (a name is recycled) or one never handed out before
NewNames(shs, prog, pst) ==
    LET top == SetMax(EverUsed(shs, prog) \cup {0}) IN
    { CHOOSE n \in 1..(top + 1) : n \notin UsedNames(shs, prog, pst)
                                  /\ \A m \in 1..(n - 1) : m \in UsedNames(shs, prog, pst),
      top + 1 }

\* glDeleteShader(name): 0 is silently ignored, an unknown name is an error,
\* an attached shader is flagged for deletion, any other is freed
GlDeleteShader(shs, att, name) ==
    LET i == Lookup(shs, name) IN
    IF name = 0 \/ i = 0 THEN shs
    ELSE [shs EXCEPT ![i].deletes = @ + 1,
                     ![i].state = IF i \in att THEN "flagged" ELSE "freed"]

\* glAttachShader(program, name): 0 or an unknown name is an error
GlAttachShader(shs, att, name) ==
    IF name = 0 \/ Lookup(shs, name) = 0 THEN att ELSE att \cup {Lookup(shs, name)}

\* glGetShaderiv(id, GL_INFO_LOG_LENGTH, &length): the log and its terminator
InfoLogLength(log) == Len(log) + 1
\* glGetShaderInfoLog(id, bufSize, ..., message): at most bufSize - 1
\* characters of the log, then the terminator
GlGetShaderInfoLog(log, bufSize) ==
    IF bufSize - 1 >= Len(log) THEN log ELSE SubSeq(log, 1, bufSize - 1)

----------------------------------------------------------------------------
\* CompileShader

\* lines 67-70: the message buffer after glGetShaderInfoLog
Message(log) == GlGetShaderInfoLog(log, InfoLogLength(log))

\* line 71: type == GL_VERTEX_SHADER ? "vertex" : "fragment"
StageName(kind) == IF kind = GL_VERTEX_SHADER THEN "vertex" ELSE "fragment"

\* Report with the two output statements in the other order
ReportLogFirst(kind, message) ==
    << message, <<"Failed to compile shader", StageName(kind)>> >>

\* lines 71-72: what a failed compile writes to std::cout
Report(kind, message) ==
    << <<"Failed to compile shader", StageName(kind)>>, message >>

\* CompileShaderResult with line 74 returning id
CompileShaderResultStale(id, ok) == id

\* lines 74 and 77: the value CompileShader returns
CompileShaderResult(id, ok) == IF ok THEN id ELSE 0

\* lines 58-61: the calls that create and compile the stage
CompileCalls(kind, id) ==
    << Call("glCreateShader", kind, id),
       Call("glShaderSource", kind, id),
       Call("glCompileShader", kind, id) >>

\* lines 68-73: the calls of the failure branch
FailureCalls(kind, id) ==
    << Call("glGetShaderInfoLog", kind, id),
       Call("glDeleteShader", kind, id) >>

\* lines 56-78, for a driver that names the object id, compiles it with
\* outcome ok and leaves the info log log
CompileShader(kind, id, ok, log) ==
    LET created == Append(shaders, [name |-> id, kind |-> kind, compiled |-> ok,
                                    log |-> IF ok THEN <<>> ELSE log,
                                    state |-> "live", deletes |-> 0]) IN
    IF ok
    THEN /\ shaders' = created
         /\ glCalls' = glCalls \o CompileCalls(kind, id)
         /\ out' = out
    ELSE /\ shaders' = GlDeleteShader(created, attached, id)
         /\ glCalls' = glCalls \o CompileCalls(kind, id) \o FailureCalls(kind, id)
         /\ out' = out \o Report(kind, Message(log))

----------------------------------------------------------------------------
\* CreateShader

\* lines 164 and 82: main calls CreateShader, which creates the program
CreateProgram ==
    /\ pc = "parsed"
    /\ \E id \in NewNames(shaders, program, progState) :
        /\ program' = id
        /\ glCalls' = Append(glCalls, Call("glCreateProgram", "", id))
    /\ progState' = "created"
    /\ pc' = "compile_vs"
    /\ UNCHANGED <<source, out, frames, vs, fs, shader, shaders, attached, linkStatus>>
    /\ UNCHANGED <<fileVars, parseVars>>

\* line 83
CompileVertex ==
    /\ pc = "compile_vs"
    /\ \E id \in NewNames(shaders, program, progState), ok \in BOOLEAN, log \in Logs :
        /\ CompileShader(GL_VERTEX_SHADER, id, ok, log)
        /\ vs' = CompileShaderResult(id, ok)
    /\ pc' = "compile_fs"
    /\ UNCHANGED <<source, frames, program, fs, shader, attached, linkStatus, progState>>
    /\ UNCHANGED <<fileVars, parseVars>>

\* line 84
CompileFragment ==
    /\ pc = "compile_fs"
    /\ \E id \in NewNames(shaders, program, progState), ok \in BOOLEAN, log \in Logs :
        /\ CompileShader(GL_FRAGMENT_SHADER, id, ok, log)
        /\ fs' = CompileShaderResult(id, ok)
    /\ pc' = "link"
    /\ UNCHANGED <<source, frames, program, vs, shader, attached, linkStatus, progState>>
    /\ UNCHANGED <<fileVars, parseVars>>

\* lines 86-89: attach both stages, link, validate; the link status is
\* never read
LinkProgram ==
    /\ pc = "link"
    /\ attached' = GlAttachShader(shaders, GlAttachShader(shaders, attached, vs), fs)
    /\ \E linked \in BOOLEAN : linkStatus' = IF linked THEN "ok" ELSE "failed"
    /\ glCalls' = glCalls \o << Call("glAttachShader", GL_VERTEX_SHADER, vs),
                                Call("glAttachShader", GL_FRAGMENT_SHADER, fs),
                                Call("glLinkProgram", "", program),
                                Call("glValidateProgram", "", program) >>
    /\ pc' = "delete"
    /\ UNCHANGED <<source, out, frames, shaders, progState>>
    /\ UNCHANGED <<fileVars, parseVars, localVars>>

\* lines 91-92
DeleteStages ==
    /\ pc = "delete"
    /\ shaders' = GlDeleteShader(GlDeleteShader(shaders, attached, vs), attached, fs)
    /\ glCalls' = glCalls \o << Call("glDeleteShader", GL_VERTEX_SHADER, vs),
                                Call("glDeleteShader", GL_FRAGMENT_SHADER, fs) >>
    /\ pc' = "return"
    /\ UNCHANGED <<source, out, frames, attached, linkStatus, progState>>
    /\ UNCHANGED <<fileVars, parseVars, localVars>>

\* lines 94 and 164: the program name is returned and stored in shader
ReturnProgram ==
    /\ pc = "return"
    /\ shader' = program
    /\ pc' = "loop"
    /\ UNCHANGED <<source, out, frames, program, vs, fs>>
    /\ UNCHANGED <<fileVars, parseVars, glVars>>

----------------------------------------------------------------------------
\* main, lines 168-193

\* lines 168-183: one iteration of the game loop
RenderFrame ==
    /\ pc = "loop"
    /\ frames < MaxFrames
    /\ glCalls' = Append(glCalls, Call("glUseProgram", "", shader))
    /\ frames' = frames + 1
    /\ UNCHANGED <<pc, source, out, shaders, attached, linkStatus, progState>>
    /\ UNCHANGED <<fileVars, parseVars, localVars>>

\* lines 168 and 188-193: the window is closed; deleting the program
\* detaches its shaders, which frees those flagged for deletion
CloseWindow ==
    /\ pc = "loop"
    /\ glCalls' = Append(glCalls, Call("glDeleteProgram", "", shader))
    /\ progState' = "deleted"
    /\ attached' = {}
    /\ shaders' = [i \in 1..Len(shaders) |->
                     IF shaders[i].state = "flagged"
                     THEN [shaders[i] EXCEPT !.state = "freed"]
                     ELSE shaders[i]]
    /\ pc' = "done"
    /\ UNCHANGED <<source, out, frames, linkStatus>>
    /\ UNCHANGED <<fileVars, parseVars, localVars>>

----------------------------------------------------------------------------

Next ==
    \/ OpenStream
    \/ DirectiveLine
    \/ ContentLine
    \/ ContentLineNoMode
    \/ ParseReturn
    \/ CreateProgram
    \/ CompileVertex
    \/ CompileFragment
    \/ LinkProgram
    \/ DeleteStages
    \/ ReturnProgram
    \/ RenderFrame
    \/ CloseWindow

Spec == Init /\ [][Next]_vars

----------------------------------------------------------------------------
\* Vocabulary of the properties

\* main has received the result of ParseShader
PostParse == {"parsed", "compile_vs", "compile_fs", "link", "delete", "return", "loop", "done"}
\* ParseShader is running, has died or has just returned: ss, type and the
\* stream are its locals
InParse == {"getline", "crashed", "parsed"}
\* CreateShader is past line 92 / has returned
StagesDone == {"return", "loop", "done"}

IsDirective(l)   == Find(l, "#shader")
IsVertexDir(l)   == IsDirective(l) /\ Find(l, "vertex")
IsFragmentDir(l) == IsDirective(l) /\ Find(l, "fragment") /\ ~Find(l, "vertex")
IsBareDir(l)     == IsDirective(l) /\ ~Find(l, "vertex") /\ ~Find(l, "fragment")

\* the mode selected by the lines ls: that of the last directive naming a stage
ModeAfter(ls) ==
    LET S == { i \in 1..Len(ls) : IsVertexDir(ls[i]) \/ IsFragmentDir(ls[i]) } IN
    IF S = {} THEN NONE
    ELSE IF IsVertexDir(ls[SetMax(S)]) THEN VERTEX ELSE FRAGMENT

\* the content lines of ls read while stage k was selected, in order
RECURSIVE StageLines(_, _)
StageLines(ls, k) ==
    IF ls = <<>> THEN <<>>
    ELSE LET front == SubSeq(ls, 1, Len(ls) - 1)
             last  == ls[Len(ls)]
         IN  IF ~IsDirective(last) /\ ModeAfter(front) = k
             THEN Append(StageLines(front, k), last)
             ELSE StageLines(front, k)

\* the text made of the given lines, each followed by a newline
RECURSIVE Terminated(_)
Terminated(ls) == IF ls = <<>> THEN <<>> ELSE Head(ls) \o <<NL>> \o Terminated(Tail(ls))

\* the number of newlines in a text
NLCount(text) == Cardinality({ i \in 1..Len(text) : text[i] = NL })

\* ls is a directive line, content lines, the directive of the other stage,
\* content lines
Directives(ls) == { i \in 1..Len(ls) : IsDirective(ls[i]) }
SecondDir(ls)  == SetMax(Directives(ls))
TwoSections(ls) ==
    /\ Cardinality(Directives(ls)) = 2
    /\ 1 \in Directives(ls)
    /\ \/ IsVertexDir(ls[1]) /\ IsFragmentDir(ls[SecondDir(ls)])
       \/ IsFragmentDir(ls[1]) /\ IsVertexDir(ls[SecondDir(ls)])
FirstSection(ls)  == SubSeq(ls, 2, SecondDir(ls) - 1)
SecondSection(ls) == SubSeq(ls, SecondDir(ls) + 1, Len(ls))
VertexSection(ls)   == IF IsVertexDir(ls[1]) THEN FirstSection(ls) ELSE SecondSection(ls)
FragmentSection(ls) == IF IsVertexDir(ls[1]) THEN SecondSection(ls) ELSE FirstSection(ls)

\* the shader objects of one stage
StageObjects(kind) == { i \in 1..Len(shaders) : shaders[i].kind = kind }
StageFailed(kind)   == \E i \in StageObjects(kind) : ~shaders[i].compiled
StageCompiled(kind) == \E i \in StageObjects(kind) : shaders[i].compiled
BothCompiled == StageCompiled(GL_VERTEX_SHADER) /\ StageCompiled(GL_FRAGMENT_SHADER)
CallsOf(names) == { i \in 1..Len(glCalls) : glCalls[i].call \in names }
FragmentCompileCalls ==
    { i \in CallsOf({"glCreateShader", "glShaderSource", "glCompileShader"}) :
        glCalls[i].kind = GL_FRAGMENT_SHADER }
LinkCalls == CallsOf({"glAttachShader", "glLinkProgram", "glValidateProgram"})

\* what std::cout holds when the given shader objects were compiled in turn
RECURSIVE ExpectedOut(_)
ExpectedOut(shs) ==
    IF shs = <<>> THEN <<>>
    ELSE LET sh == Head(shs) IN
         (IF sh.compiled THEN <<>>
          ELSE << <<"Failed to compile shader",
                    IF sh.kind = GL_VERTEX_SHADER THEN "vertex" ELSE "fragment">>,
                  sh.log >>)
         \o ExpectedOut(Tail(shs))

----------------------------------------------------------------------------
\* Properties

\* C1: once the vertex stage has failed to compile, the build makes no
\* fragment-stage compilation and no attach, link or validate call.
VertexFailureStopsBuild ==
    StageFailed(GL_VERTEX_SHADER) => (FragmentCompileCalls = {} /\ LinkCalls = {})

\* C2: the value CreateShader returns to main is the sentinel 0 or the name
\* of a program both of whose stages compiled and which linked; nothing
\* else reaches glUseProgram.
OnlyValidProgramReturned ==
    /\ pc \in {"loop", "done"} =>
          (shader = 0 \/ (shader = program /\ BothCompiled /\ linkStatus = "ok"))
    /\ \A i \in CallsOf({"glUseProgram"}) :
          glCalls[i].id # 0 => (BothCompiled /\ linkStatus = "ok")

\* C3: while no mode has been selected, a content line changes neither
\* buffer and nothing outside ss[0] and ss[1] is accessed.
NoModeContentIsHarmless ==
    /\ ~oob
    /\ ModeAfter(read) = NONE => (ss[0] = <<>> /\ ss[1] = <<>>)

\* C4: when the shader file cannot be read, ParseShader does not return a
\* result to main and main makes no call of the Builder.
UnreadableFileStopsMain ==
    ~fileReadable => (pc \notin PostParse /\ glCalls = <<>>)

\* C5: for a file made of a vertex directive with N content lines and a
\* fragment directive with M content lines, in either order, ParseShader
\* returns exactly the N lines as vertex text and the M lines as fragment
\* text, in file order, each followed by a newline.
TwoSectionFileSplit ==
    (pc = "parsed" /\ fileReadable /\ TwoSections(srcLines)) =>
        /\ source.VertexSource = Terminated(VertexSection(srcLines))
        /\ source.FragmentSource = Terminated(FragmentSection(srcLines))
        /\ NLCount(source.VertexSource) = Len(VertexSection(srcLines))
        /\ NLCount(source.FragmentSource) = Len(FragmentSection(srcLines))

\* C5 witness: a file with the fragment section first, both sections
\* non-empty, has been parsed.
TwoSectionFileSplitWitness ==
    /\ pc = "parsed"
    /\ TwoSections(srcLines)
    /\ IsFragmentDir(srcLines[1])
    /\ VertexSection(srcLines) # <<>>
    /\ FragmentSection(srcLines) # <<>>
    /\ source.VertexSource # <<>>

\* C6: the marker "#shader" occurs in neither buffer and in neither
\* returned string, and the buffers hold one line per content line read in
\* a selected mode: a directive line adds nothing and removes nothing.
DirectivesStripped ==
    pc \in InParse =>
        /\ \A k \in 0..1 : ~Find(ss[k], "#shader")
        /\ ~Find(source.VertexSource, "#shader")
        /\ ~Find(source.FragmentSource, "#shader")
        /\ NLCount(ss[0]) + NLCount(ss[1]) =
              Len(StageLines(read, VERTEX)) + Len(StageLines(read, FRAGMENT))

\* C6 witness: a file with a directive after a content line of a selected
\* stage has been parsed, and both returned strings are non-empty.
DirectivesStrippedWitness ==
    /\ pc = "parsed"
    /\ Cardinality(Directives(read)) >= 2
    /\ source.VertexSource # <<>>
    /\ source.FragmentSource # <<>>

\* C7: when CreateShader is past its two glDeleteShader calls, every stage
\* object that was created has been deleted by exactly one call and none is
\* live, and no delete call named an object that no longer exists; at no
\* time is a stage object deleted twice.
StagesReleasedOnce ==
    /\ \A i \in 1..Len(shaders) : shaders[i].deletes <= 1
    /\ pc \in StagesDone =>
          /\ Len(shaders) = 2
          /\ \A i \in 1..Len(shaders) :
                shaders[i].deletes = 1 /\ shaders[i].state # "live"
          /\ Cardinality({ i \in CallsOf({"glDeleteShader"}) : glCalls[i].id # 0 }) = 2

\* C7 witness: the vertex stage failed, the fragment stage compiled under
\* the recycled name, and CreateShader is about to return.
StagesReleasedOnceWitness ==
    /\ pc = "return"
    /\ Len(shaders) = 2
    /\ ~shaders[1].compiled /\ shaders[2].compiled
    /\ shaders[1].name = shaders[2].name
    /\ vs = 0 /\ fs # 0

\* C8: a program object exists, or an attach, link or validate call has
\* been made, only if both stages have compiled successfully before.
ProgramOnlyAfterBothCompiled ==
    (progState # "none" \/ CallsOf({"glCreateProgram"}) # {} \/ LinkCalls # {})
        => BothCompiled

\* C9: std::cout holds, for each failed stage compile and in compile order,
\* the stage name and then the full info log, and nothing else; each stage
\* is compiled exactly once per object and at most once per build.
DiagnosticsMatchFailures ==
    /\ out = ExpectedOut(shaders)
    /\ BothCompiled => out = <<>>
    /\ \A kind \in {GL_VERTEX_SHADER, GL_FRAGMENT_SHADER} :
          /\ Cardinality(StageObjects(kind)) <= 1
          /\ Cardinality({ i \in CallsOf({"glCompileShader"}) : glCalls[i].kind = kind })
                = Cardinality(StageObjects(kind))

\* C9 witness: both stages failed to compile and two reports are on std::cout.
DiagnosticsMatchFailuresWitness ==
    /\ pc = "link"
    /\ StageFailed(GL_VERTEX_SHADER) /\ StageFailed(GL_FRAGMENT_SHADER)
    /\ Len(out) = 4
    /\ out[1] = <<"Failed to compile shader", "vertex">>
    /\ out[3] = <<"Failed to compile shader", "fragment">>

\* C10: the mode is that of the last directive line naming a stage (VERTEX
\* when it names both), so a directive naming none leaves it as it was, and
\* each buffer holds exactly the content lines read while its stage was
\* selected: a directive naming no stage is in neither.
MalformedDirectiveKeepsMode ==
    pc \in InParse =>
        /\ type = ModeAfter(read)
        /\ \A k \in 0..1 : ss[k] = Terminated(StageLines(read, k))

\* C10 witness: a directive naming both stages, a directive naming none and
\* a content line have been read, and the content line is in the vertex buffer.
MalformedDirectiveKeepsModeWitness ==
    /\ pc = "getline"
    /\ Len(read) = 3
    /\ IsDirective(read[1]) /\ Find(read[1], "vertex") /\ Find(read[1], "fragment")
    /\ IsBareDir(read[2])
    /\ ~IsDirective(read[3]) /\ read[3] # <<>>
    /\ type = VERTEX
    /\ ss[VERTEX] = read[3] \o <<NL>>
    /\ ss[FRAGMENT] = <<>>

====
